---- MODULE Spec2Model ----
(***************************************************************************)
(* Model of webpack.config.js: the evaluation of the module (environment    *)
(* switch, helper functions, exported configuration object) and calls of    *)
(* its helper functions.  Two node processes, each with its own NODE_ENV,   *)
(* evaluate the module side by side, so that configurations obtained under  *)
(* different environments can be compared.                                  *)
(*                                                                          *)
(* JavaScript values: strings are strings, booleans are booleans, object    *)
(* literals are records, `undefined` is the marker Undefined.  The arrays   *)
(* the helpers create are objects with identity: they live in heap[i], a    *)
(* sequence of arrays, and are referred to by their index, so that a push   *)
(* onto an array is seen through every reference to it.  File-name          *)
(* templates are strings, modelled as the sequence of their segments.       *)
(***************************************************************************)
EXTENDS Naturals, Sequences, FiniteSets, TLC

\* Number of helper calls made after the module is evaluated (all processes).
MaxCalls == 1

\* The node processes evaluating the module.
Inst == {1, 2}

Undefined == "<undefined>"

\* Values of process.env.NODE_ENV (Undefined: the variable is not set).
EnvValues == {Undefined, "development", "production", "test"}

\* Arguments the helpers are called with.
Exts == {"js", "css"}
Extras == {Undefined, "less-loader", "sass-loader"}
Presets == {Undefined, "@babel/preset-typescript", "@babel/preset-react"}

VARIABLES
    NODE_ENV,   \* NODE_ENV[i]: process.env.NODE_ENV of process i
    pc,         \* pc[i]: position of process i in the evaluation of the module
    isDev,      \* isDev[i], isProd[i]: the module-level constants
    isProd,
    heap,       \* heap[i]: the arrays created so far, by address
    literal,    \* literal[i]: the object literal of line 124, property by property
    exports,    \* exports[i]: module.exports
    calls,      \* calls[i]: the helper calls so far, each with what it returned
    ncalls      \* helper calls made after evaluation, all processes together

vars == <<NODE_ENV, pc, isDev, isProd, heap, literal, exports, calls, ncalls>>

----------------------------------------------------------------------------
\* JavaScript primitives used by the file

\* if (v): undefined and the empty string are falsy, other strings truthy.
Truthy(v) == v # Undefined /\ v # ""

\* new Class(args...)
New(class, args) == [class |-> class, args |-> args]

\* path.resolve(__dirname, p)
Resolve(p) == <<"__dirname", p>>

\* MiniCssExtractPlugin.loader
MiniCssExtractPluginLoader == "MiniCssExtractPlugin.loader"

\* process.env.NODE_ENV === 'development'
IsDevelopment(env) == env = "development"

----------------------------------------------------------------------------
\* What a helper call yields: the heap after it, its return value, and the
\* calls made (nested calls first).  val is the value of the returned object
\* at the moment of the return, with its arrays read from the heap.

BabelView(h, o) == [presets |-> h[o.presets], plugins |-> h[o.plugins]]

View(fn, h, r) ==
    CASE fn = "filename" -> r
      [] fn = "optimization" ->
            IF "minimizer" \in DOMAIN r
            THEN [r EXCEPT !.minimizer = h[r.minimizer]]
            ELSE r
      [] fn = "cssLoaders" -> h[r]
      [] fn = "babelOptions" -> BabelView(h, r)
      [] fn = "jsLoaders" ->
            [h[r] EXCEPT ![1] = [loader |-> h[r][1].loader,
                                 options |-> BabelView(h, h[r][1].options)]]
      [] fn = "plugins" -> h[r]

Return(fn, arg, h, r, inner) ==
    [heap |-> h, ret |-> r,
     log |-> Append(inner, [fn |-> fn, arg |-> arg, ret |-> r, val |-> View(fn, h, r)])]

----------------------------------------------------------------------------
\* The helpers (lines 13-122)

\* The minimizer list is set in every environment.
optimization_minimizer_always(i, h) ==
    Return("optimization", Undefined,
           Append(h, <<New("OptimizeCssAssetWebpackPlugin", <<>>),
                       New("TerserWebpackPlugin", <<>>)>>),
           [splitChunks |-> [chunks |-> "all"], minimizer |-> Len(h) + 1], <<>>)

optimization(i, h) ==
    LET config == [splitChunks |-> [chunks |-> "all"]]
        minimizer == <<New("OptimizeCssAssetWebpackPlugin", <<>>),
                       New("TerserWebpackPlugin", <<>>)>>
    IN  IF isProd[i]
        THEN Return("optimization", Undefined, Append(h, minimizer),
                    config @@ [minimizer |-> Len(h) + 1], <<>>)
        ELSE Return("optimization", Undefined, h, config, <<>>)

\* The hash placeholder is left out in production too.
filename_never_hashed(i, ext) == <<"[name]", ".", ext>>

filename(i, ext) ==
    IF isDev[i] THEN <<"[name]", ".", ext>>
                ELSE <<"[name]", ".", "[hash]", ".", ext>>

\* The pre-processor loader is put before 'css-loader'.
cssLoaders_extra_before_css(i, h, extra) ==
    LET first == <<[loader |-> MiniCssExtractPluginLoader,
                    options |-> [hmr |-> isDev[i], reloadAll |-> TRUE]]>>
        loaders == IF Truthy(extra) THEN Append(first, extra) ELSE first
    IN  Return("cssLoaders", extra, Append(h, Append(loaders, "css-loader")),
               Len(h) + 1, <<>>)

\* The hmr option is switched on in every environment.
cssLoaders_hmr_always(i, h, extra) ==
    LET loaders == <<[loader |-> MiniCssExtractPluginLoader,
                      options |-> [hmr |-> TRUE, reloadAll |-> TRUE]],
                     "css-loader">>
        pushed == IF Truthy(extra) THEN Append(loaders, extra) ELSE loaders
    IN  Return("cssLoaders", extra, Append(h, pushed), Len(h) + 1, <<>>)

cssLoaders(i, h, extra) ==
    LET loaders == <<[loader |-> MiniCssExtractPluginLoader,
                      options |-> [hmr |-> isDev[i], reloadAll |-> TRUE]],
                     "css-loader">>
        pushed == IF Truthy(extra) THEN Append(loaders, extra) ELSE loaders
    IN  Return("cssLoaders", extra, Append(h, pushed), Len(h) + 1, <<>>)

\* The presets array is a module-level array shared by the calls: every call
\* after the first pushes onto the array the first call returned.
babelOptions_shared_presets(i, h, preset) ==
    LET prev == CHOOSE n \in {0} \cup DOMAIN calls[i] :
                    /\ n # 0 => calls[i][n].fn = "babelOptions"
                    /\ \A m \in DOMAIN calls[i] :
                          calls[i][m].fn = "babelOptions" => (n # 0 /\ n <= m)
        fresh == prev = 0
        a == IF fresh THEN Len(h) + 1 ELSE calls[i][prev].ret.presets
        old == IF fresh THEN <<"@babel/preset-env">> ELSE h[a]
        pushed == IF Truthy(preset) THEN Append(old, preset) ELSE old
        h1 == IF fresh THEN Append(h, pushed) ELSE [h EXCEPT ![a] = pushed]
    IN  Return("babelOptions", preset,
               Append(h1, <<"@babel/plugin-proposal-class-properties">>),
               [presets |-> a, plugins |-> Len(h1) + 1], <<>>)

\* The preset is put in front of '@babel/preset-env' (unshift for push).
babelOptions_preset_first(i, h, preset) ==
    LET presets == <<"@babel/preset-env">>
        plugins_ == <<"@babel/plugin-proposal-class-properties">>
        pushed == IF Truthy(preset) THEN <<preset>> \o presets ELSE presets
    IN  Return("babelOptions", preset, h \o <<pushed, plugins_>>,
               [presets |-> Len(h) + 1, plugins |-> Len(h) + 2], <<>>)

babelOptions(i, h, preset) ==
    LET presets == <<"@babel/preset-env">>
        plugins_ == <<"@babel/plugin-proposal-class-properties">>
        pushed == IF Truthy(preset) THEN Append(presets, preset) ELSE presets
    IN  Return("babelOptions", preset, h \o <<pushed, plugins_>>,
               [presets |-> Len(h) + 1, plugins |-> Len(h) + 2], <<>>)

jsLoaders(i, h) ==
    LET b == babelOptions(i, h, Undefined)
        loaders == <<[loader |-> "babel-loader", options |-> b.ret]>>
        pushed == IF isDev[i] THEN Append(loaders, "eslint-loader") ELSE loaders
    IN  Return("jsLoaders", Undefined, Append(b.heap, pushed), Len(b.heap) + 1, b.log)

\* The bundle-size visualizer is put in front of the list instead of pushed.
plugins_visualizer_first(i, h) ==
    LET f == Return("filename", "css", h, filename(i, "css"), <<>>)
        base == <<New("HTMLWebpackPlugin",
                      <<[template |-> "./index.html",
                         minify |-> [collapseWhitespace |-> isProd[i]]]>>),
                  New("CleanWebpackPlugin", <<>>),
                  New("CopyWebpackPlugin",
                      << <<[from |-> Resolve("src/favicon.ico"),
                            to |-> Resolve("dist")]>> >>),
                  New("MiniCssExtractPlugin", <<[filename |-> f.ret]>>)>>
        pushed == IF isProd[i] THEN <<New("BundleAnalyzerPlugin", <<>>)>> \o base
                               ELSE base
    IN  Return("plugins", Undefined, Append(h, pushed), Len(h) + 1, f.log)

plugins(i, h) ==
    LET f == Return("filename", "css", h, filename(i, "css"), <<>>)
        base == <<New("HTMLWebpackPlugin",
                      <<[template |-> "./index.html",
                         minify |-> [collapseWhitespace |-> isProd[i]]]>>),
                  New("CleanWebpackPlugin", <<>>),
                  New("CopyWebpackPlugin",
                      << <<[from |-> Resolve("src/favicon.ico"),
                            to |-> Resolve("dist")]>> >>),
                  New("MiniCssExtractPlugin", <<[filename |-> f.ret]>>)>>
        pushed == IF isProd[i] THEN Append(base, New("BundleAnalyzerPlugin", <<>>))
                               ELSE base
    IN  Return("plugins", Undefined, Append(h, pushed), Len(h) + 1, f.log)

----------------------------------------------------------------------------
\* Evaluation of the module, statement by statement and, inside the object
\* literal of lines 124-216, property by property, in source order.

\* An object without properties ({}: module.exports before line 124).
EmptyObject == [p \in {} |-> Undefined]

\* Entry values keep their JavaScript type (a string or an array of strings).
Str(s) == [type |-> "string", str |-> s]
Arr(items) == [type |-> "array", items |-> items]

\* Both entry points written as arrays.
entry_both_arrays ==
    [main |-> Arr(<<"@babel/polyfill", "./index.jsx">>),
     analytics |-> Arr(<<"./analytics.ts">>)]

entry ==
    [main |-> Arr(<<"@babel/polyfill", "./index.jsx">>),
     analytics |-> Str("./analytics.ts")]

\* The mode follows the environment switch.
mode_by_env(i) == IF isProd[i] THEN "production" ELSE "development"

mode(i) == "development"

\* Source maps are switched off by the value 'production' and not by isDev.
devtool_by_env_name(i) == IF NODE_ENV[i] = "production" THEN "" ELSE "source-map"

devtool(i) == IF isDev[i] THEN "source-map" ELSE ""

DevServerPort == 4200

devServer(i) == [port |-> DevServerPort, hot |-> isDev[i]]

resolve ==
    [extensions |-> <<".js", ".json", ".png">>,
     alias |-> ("@models" :> Resolve("src/models")) @@ ("@" :> Resolve("src"))]

NumRules == 10

\* The k-th element of module.rules; array literals are allocated on the heap.
RuleAt(i, h, k) ==
    LET Use(test, c) == [heap |-> c.heap, log |-> c.log,
                         ret |-> [test |-> test, use |-> c.ret]]
        Plain(test, loader) == [heap |-> Append(h, <<loader>>), log |-> <<>>,
                                ret |-> [test |-> test, use |-> Len(h) + 1]]
        Babel(test, c) == [heap |-> c.heap, log |-> c.log,
                           ret |-> [test |-> test, exclude |-> "/node_modules/",
                                    loader |-> [loader |-> "babel-loader",
                                                options |-> c.ret]]]
    IN  CASE k = 1 -> Use("/\\.css$/", cssLoaders(i, h, Undefined))
          [] k = 2 -> Use("/\\.less$/", cssLoaders(i, h, "less-loader"))
          [] k = 3 -> Use("/\\.s[ac]ss$/", cssLoaders(i, h, "sass-loader"))
          [] k = 4 -> Plain("/\\.(png|jpg|svg|gif)$/", "file-loader")
          [] k = 5 -> Plain("/\\.(ttf|woff|woff2|eot)$/", "file-loader")
          [] k = 6 -> Plain("/\\.xml$/", "xml-loader")
          [] k = 7 -> Plain("/\\.csv$/", "csv-loader")
          [] k = 8 -> LET c == jsLoaders(i, h)
                      IN  [heap |-> c.heap, log |-> c.log,
                           ret |-> [test |-> "/\\.js$/", exclude |-> "/node_modules/",
                                    use |-> c.ret]]
          [] k = 9 -> Babel("/\\.ts$/", babelOptions(i, h, "@babel/preset-typescript"))
          [] k = 10 -> Babel("/\\.jsx$/", babelOptions(i, h, "@babel/preset-react"))

Init ==
    /\ NODE_ENV \in [Inst -> EnvValues]
    /\ pc = [i \in Inst |-> "env"]
    /\ isDev = [i \in Inst |-> FALSE]      \* not initialised before line 10
    /\ isProd = [i \in Inst |-> FALSE]
    /\ heap = [i \in Inst |-> <<>>]
    /\ literal = [i \in Inst |-> EmptyObject]
    /\ exports = [i \in Inst |-> EmptyObject]
    /\ calls = [i \in Inst |-> <<>>]
    /\ ncalls = 0

\* Lines 10-11.
EvalEnv(i) ==
    /\ pc[i] = "env"
    /\ isDev' = [isDev EXCEPT ![i] = IsDevelopment(NODE_ENV[i])]
    /\ isProd' = [isProd EXCEPT ![i] = ~isDev'[i]]
    /\ pc' = [pc EXCEPT ![i] = "entry"]
    /\ UNCHANGED <<NODE_ENV, heap, literal, exports, calls, ncalls>>

\* Lines 126-135: context, mode, entry.
EvalEntry(i) ==
    /\ pc[i] = "entry"
    /\ literal' = [literal EXCEPT ![i] =
                      [context |-> Resolve("src"), mode |-> mode(i), entry |-> entry]]
    /\ pc' = [pc EXCEPT ![i] = "output"]
    /\ UNCHANGED <<NODE_ENV, isDev, isProd, heap, exports, calls, ncalls>>

\* Lines 136-151: output (with the call filename('js')) and resolve.
EvalOutput(i) ==
    /\ pc[i] = "output"
    /\ LET f == Return("filename", "js", heap[i], filename(i, "js"), <<>>)
       IN  /\ literal' = [literal EXCEPT ![i] =
                            @ @@ [output |-> [filename |-> f.ret, path |-> Resolve("dist")],
                                  resolve |-> resolve]]
           /\ calls' = [calls EXCEPT ![i] = @ \o f.log]
    /\ pc' = [pc EXCEPT ![i] = "optimization"]
    /\ UNCHANGED <<NODE_ENV, isDev, isProd, heap, exports, ncalls>>

\* Line 152.
EvalOptimization(i) ==
    /\ pc[i] = "optimization"
    /\ LET c == optimization(i, heap[i])
       IN  /\ heap' = [heap EXCEPT ![i] = c.heap]
           /\ literal' = [literal EXCEPT ![i] = @ @@ [optimization |-> c.ret]]
           /\ calls' = [calls EXCEPT ![i] = @ \o c.log]
    /\ pc' = [pc EXCEPT ![i] = "devServer"]
    /\ UNCHANGED <<NODE_ENV, isDev, isProd, exports, ncalls>>

\* Lines 154-161: devServer and devtool.
EvalDevServer(i) ==
    /\ pc[i] = "devServer"
    /\ literal' = [literal EXCEPT ![i] =
                      @ @@ [devServer |-> devServer(i), devtool |-> devtool(i)]]
    /\ pc' = [pc EXCEPT ![i] = "plugins"]
    /\ UNCHANGED <<NODE_ENV, isDev, isProd, heap, exports, calls, ncalls>>

\* Line 162.
EvalPlugins(i) ==
    /\ pc[i] = "plugins"
    /\ LET c == plugins(i, heap[i])
       IN  /\ heap' = [heap EXCEPT ![i] = c.heap]
           /\ literal' = [literal EXCEPT ![i] =
                            @ @@ [plugins |-> c.ret, module |-> [rules |-> <<>>]]]
           /\ calls' = [calls EXCEPT ![i] = @ \o c.log]
    /\ pc' = [pc EXCEPT ![i] = "rules"]
    /\ UNCHANGED <<NODE_ENV, isDev, isProd, exports, ncalls>>

\* Lines 164-214: the next element of module.rules.
EvalRule(i) ==
    /\ pc[i] = "rules"
    /\ LET k == Len(literal[i].module.rules) + 1
           c == RuleAt(i, heap[i], k)
       IN  /\ heap' = [heap EXCEPT ![i] = c.heap]
           /\ literal' = [literal EXCEPT ![i].module.rules = Append(@, c.ret)]
           /\ calls' = [calls EXCEPT ![i] = @ \o c.log]
           /\ pc' = [pc EXCEPT ![i] = IF k = NumRules THEN "assign" ELSE "rules"]
    /\ UNCHANGED <<NODE_ENV, isDev, isProd, exports, ncalls>>

\* Line 124: module.exports = the finished literal.
AssignExports(i) ==
    /\ pc[i] = "assign"
    /\ exports' = [exports EXCEPT ![i] = literal[i]]
    /\ pc' = [pc EXCEPT ![i] = "done"]
    /\ UNCHANGED <<NODE_ENV, isDev, isProd, heap, literal, calls, ncalls>>

----------------------------------------------------------------------------
\* Calls of the helpers once the module is evaluated, in any order.

Called(i, c) ==
    /\ pc[i] = "done"
    /\ ncalls < MaxCalls
    /\ ncalls' = ncalls + 1
    /\ heap' = [heap EXCEPT ![i] = c.heap]
    /\ calls' = [calls EXCEPT ![i] = @ \o c.log]
    /\ UNCHANGED <<NODE_ENV, pc, isDev, isProd, literal, exports>>

CallOptimization(i) == Called(i, optimization(i, heap[i]))

CallFilename(i) ==
    \E ext \in Exts : Called(i, Return("filename", ext, heap[i], filename(i, ext), <<>>))

CallCssLoaders(i) == \E extra \in Extras : Called(i, cssLoaders(i, heap[i], extra))

CallBabelOptions(i) == \E preset \in Presets : Called(i, babelOptions(i, heap[i], preset))

CallJsLoaders(i) == Called(i, jsLoaders(i, heap[i]))

CallPlugins(i) == Called(i, plugins(i, heap[i]))

Next ==
    \E i \in Inst :
        \/ EvalEnv(i)
        \/ EvalEntry(i)
        \/ EvalOutput(i)
        \/ EvalOptimization(i)
        \/ EvalDevServer(i)
        \/ EvalPlugins(i)
        \/ EvalRule(i)
        \/ AssignExports(i)
        \/ CallOptimization(i)
        \/ CallFilename(i)
        \/ CallCssLoaders(i)
        \/ CallBabelOptions(i)
        \/ CallJsLoaders(i)
        \/ CallPlugins(i)

Spec == Init /\ [][Next]_vars

----------------------------------------------------------------------------
\* Reading the configuration: the value of an object with its arrays read
\* from the heap.

RuleView(h, k, r) ==
    CASE k \in 1..7 -> [r EXCEPT !.use = h[r.use]]
      [] k = 8 -> [r EXCEPT !.use = View("jsLoaders", h, r.use)]
      [] k \in 9..10 -> [r EXCEPT !.loader.options = BabelView(h, r.loader.options)]

ConfigView(i) ==
    LET e == exports[i]
        h == heap[i]
    IN  [e EXCEPT !.optimization = View("optimization", h, e.optimization),
                  !.plugins = View("plugins", h, e.plugins),
                  !.module.rules = [k \in 1..Len(e.module.rules) |->
                                       RuleView(h, k, e.module.rules[k])]]

Done(i) == pc[i] = "done"

\* The calls of helper fn made so far by process i.
CallsOf(i, fn) == {n \in DOMAIN calls[i] : calls[i][n].fn = fn}

HasHash(template) == \E k \in DOMAIN template : template[k] = "[hash]"

PlainTemplate(ext) == <<"[name]", ".", ext>>
HashedTemplate(ext) == <<"[name]", ".", "[hash]", ".", ext>>

Classes(list) == [k \in DOMAIN list |-> list[k].class]

----------------------------------------------------------------------------
\* C1: filename(ext) is the plain template [name].<ext> in development and
\* the hashed template [name].[hash].<ext> in production, for every call made;
\* output.filename (ext js) and the filename of the style-sheet extraction
\* plugin (ext css) follow the rule, so both hold the hash placeholder
\* exactly in production.
FilenameFollowsEnv ==
    \A i \in Inst :
        /\ \A n \in CallsOf(i, "filename") :
              LET c == calls[i][n]
              IN  /\ isDev[i] => c.val = PlainTemplate(c.arg)
                  /\ isProd[i] => c.val = HashedTemplate(c.arg)
        /\ Done(i) =>
              LET js == ConfigView(i).output.filename
                  css == ConfigView(i).plugins[4].args[1].filename
              IN  /\ ConfigView(i).plugins[4].class = "MiniCssExtractPlugin"
                  /\ js = IF isDev[i] THEN PlainTemplate("js") ELSE HashedTemplate("js")
                  /\ css = IF isDev[i] THEN PlainTemplate("css") ELSE HashedTemplate("css")
                  /\ HasHash(js) <=> isProd[i]
                  /\ HasHash(css) <=> isProd[i]

\* A development and a production configuration are both exported, and
\* filename has also been called for each extension afterwards.
FilenameBothEnvs ==
    \E i, j \in Inst :
        /\ Done(i) /\ Done(j) /\ isDev[i] /\ isProd[j]
        /\ ~HasHash(exports[i].output.filename)
        /\ HasHash(exports[j].output.filename)
        /\ Cardinality(CallsOf(j, "filename")) > 2

\* C2: optimization() always returns splitChunks.chunks = 'all'; in
\* production its minimizer list is the CSS minimizer followed by the JS
\* minimizer, in development it has no minimizer property.
OptimizationFollowsEnv ==
    \A i \in Inst :
        LET Ok(o) ==
                /\ o.splitChunks.chunks = "all"
                /\ isProd[i] =>
                      /\ "minimizer" \in DOMAIN o
                      /\ Len(o.minimizer) > 0
                      /\ Classes(o.minimizer) =
                            <<"OptimizeCssAssetWebpackPlugin", "TerserWebpackPlugin">>
                /\ isDev[i] => "minimizer" \notin DOMAIN o
        IN  /\ \A n \in CallsOf(i, "optimization") : Ok(calls[i][n].val)
            /\ Done(i) => Ok(ConfigView(i).optimization)

\* Both a production configuration with its two minimizers and a development
\* configuration without the property are exported.
OptimizationBothEnvs ==
    \E i, j \in Inst :
        /\ Done(i) /\ Done(j) /\ isDev[i] /\ isProd[j]
        /\ "minimizer" \notin DOMAIN exports[i].optimization
        /\ Len(ConfigView(j).optimization.minimizer) = 2

\* C3: plugins() returns HTML generation, output-directory cleaning,
\* static-file copying and style-sheet extraction, in this order, in both
\* environments; the bundle-size visualizer is in the list exactly in
\* production, as its last element (4 plugins in development, 5 in production).
PluginListFollowsEnv ==
    \A i \in Inst :
        LET base == <<"HTMLWebpackPlugin", "CleanWebpackPlugin",
                      "CopyWebpackPlugin", "MiniCssExtractPlugin">>
            Ok(l) ==
                /\ SubSeq(Classes(l), 1, 4) = base
                /\ (\E k \in DOMAIN l : l[k].class = "BundleAnalyzerPlugin") <=> isProd[i]
                /\ isProd[i] => Len(l) = 5 /\ l[Len(l)].class = "BundleAnalyzerPlugin"
                /\ isDev[i] => Len(l) = 4
        IN  /\ \A n \in CallsOf(i, "plugins") : Ok(calls[i][n].val)
            /\ Done(i) => Ok(ConfigView(i).plugins)

\* Both a 4-plugin development list and a 5-plugin production list are exported.
PluginListBothEnvs ==
    \E i, j \in Inst :
        /\ Done(i) /\ Done(j) /\ isDev[i] /\ isProd[j]
        /\ Len(ConfigView(i).plugins) = 4
        /\ Len(ConfigView(j).plugins) = 5

\* C4: the configuration depends on the environment only through one
\* boolean: isDev is true exactly when NODE_ENV is 'development', isProd is
\* its negation for every value (an unset variable included), and two
\* processes whose NODE_ENV give the same boolean export identical
\* configurations.
EnvOnlyThroughBoolean ==
    /\ \A i \in Inst : pc[i] # "env" =>
          /\ isDev[i] <=> (NODE_ENV[i] = "development")
          /\ isProd[i] <=> ~isDev[i]
    /\ \A i, j \in Inst :
          (Done(i) /\ Done(j) /\ isDev[i] = isDev[j]) => ConfigView(i) = ConfigView(j)

\* Two processes with different values of NODE_ENV, one of them unset, and
\* the same boolean have both exported their configuration.
SameBooleanDifferentEnv ==
    \E i, j \in Inst :
        /\ Done(i) /\ Done(j)
        /\ NODE_ENV[i] = Undefined /\ NODE_ENV[j] = "production"
        /\ isProd[i] /\ isProd[j]
        /\ ConfigView(i) = ConfigView(j)

\* C5: the dev-server port is 4200 in every environment; devServer.hot is
\* true exactly in development; the hmr option of the style-sheet extraction
\* loader of every style chain equals devServer.hot; devtool is 'source-map'
\* exactly when hot reload is on and the empty string in production.
HotReloadFollowsEnv ==
    \A i \in Inst : Done(i) =>
        LET c == ConfigView(i)
        IN  /\ c.devServer.port = 4200
            /\ c.devServer.hot <=> isDev[i]
            /\ \A k \in 1..3 :
                  /\ c.module.rules[k].use[1].loader = MiniCssExtractPluginLoader
                  /\ c.module.rules[k].use[1].options.hmr = c.devServer.hot
            /\ (c.devtool = "source-map") <=> c.devServer.hot
            /\ isProd[i] => c.devtool = ""

\* A configuration with hot reload and one without are both exported.
HotReloadBothEnvs ==
    \E i, j \in Inst :
        /\ Done(i) /\ Done(j)
        /\ exports[i].devServer.hot /\ exports[i].devtool = "source-map"
        /\ ~exports[j].devServer.hot /\ exports[j].devtool = ""
        /\ ConfigView(i).module.rules[2].use[1].options.hmr
        /\ ~ConfigView(j).module.rules[2].use[1].options.hmr

\* C6: the .js, .ts and .jsx rules all use babel-loader with
\* '@babel/preset-env' as first preset and the class-properties plugin;
\* babelOptions(preset) returns presets ['@babel/preset-env', preset] when a
\* preset is given and ['@babel/preset-env'] when none is, so .ts has the
\* TypeScript preset, .jsx the React preset and .js neither.
BabelPresets ==
    \A i \in Inst :
        LET classProps == <<"@babel/plugin-proposal-class-properties">>
        IN  /\ \A n \in CallsOf(i, "babelOptions") :
                  LET c == calls[i][n]
                  IN  /\ c.val.presets = IF Truthy(c.arg)
                                         THEN <<"@babel/preset-env", c.arg>>
                                         ELSE <<"@babel/preset-env">>
                      /\ c.val.plugins = classProps
            /\ Done(i) =>
                  LET r == ConfigView(i).module.rules
                      js == r[8].use[1]
                      ts == r[9].loader
                      jsx == r[10].loader
                  IN  /\ r[8].test = "/\\.js$/" /\ r[9].test = "/\\.ts$/"
                      /\ r[10].test = "/\\.jsx$/"
                      /\ \A l \in {js, ts, jsx} :
                            /\ l.loader = "babel-loader"
                            /\ l.options.presets[1] = "@babel/preset-env"
                            /\ l.options.plugins = classProps
                      /\ js.options.presets = <<"@babel/preset-env">>
                      /\ ts.options.presets =
                            <<"@babel/preset-env", "@babel/preset-typescript">>
                      /\ jsx.options.presets =
                            <<"@babel/preset-env", "@babel/preset-react">>

\* The three rules are exported, and babelOptions has since been called
\* again, without a preset after the call with the React preset.
BabelPresetsCalled ==
    \E i \in Inst :
        /\ Done(i)
        /\ Len(ConfigView(i).module.rules[9].loader.options.presets) = 2
        /\ Cardinality(CallsOf(i, "babelOptions")) > 3
        /\ \E m, n \in CallsOf(i, "babelOptions") :
              /\ n > m
              /\ calls[i][m].arg = "@babel/preset-react"
              /\ calls[i][n].arg = Undefined

\* C7 as stated: every entry point maps its bundle name to a list of source
\* files, for 'main' and for 'analytics'.
EntryValuesAreLists ==
    \A i \in Inst : Done(i) =>
        /\ DOMAIN exports[i].entry = {"main", "analytics"}
        /\ \A name \in DOMAIN exports[i].entry : exports[i].entry[name].type = "array"

\* C7 as amended: the entry points are 'main' and 'analytics'; 'main' maps to
\* a list of two source files, 'analytics' to a single source-file path, a
\* string and not a list.
EntryListOrPath ==
    \A i \in Inst : Done(i) =>
        LET e == exports[i].entry
        IN  /\ DOMAIN e = {"main", "analytics"}
            /\ e.main.type = "array"
            /\ e.main.items = <<"@babel/polyfill", "./index.jsx">>
            /\ e.analytics.type = "string"
            /\ e.analytics.str = "./analytics.ts"

\* A configuration with its two entry points is exported.
EntryExported ==
    \E i \in Inst :
        /\ Done(i)
        /\ Len(exports[i].entry.main.items) = 2
        /\ exports[i].entry.analytics.type = "string"

\* C8: every chain built by cssLoaders(extra) has the style-sheet extraction
\* loader first, 'css-loader' second and the pre-processor loader extra last
\* when one is given; it has length 2 for .css, length 3 for .less
\* ('less-loader') and .sass/.scss ('sass-loader'), and holds no
\* pre-processor but the one passed in.
StyleChainOrder ==
    \A i \in Inst :
        LET Ok(l, extra) ==
                /\ l[1].loader = MiniCssExtractPluginLoader
                /\ l[2] = "css-loader"
                /\ Len(l) = IF Truthy(extra) THEN 3 ELSE 2
                /\ Truthy(extra) => l[Len(l)] = extra
                /\ \A k \in 3..Len(l) : l[k] = extra
        IN  /\ \A n \in CallsOf(i, "cssLoaders") : Ok(calls[i][n].val, calls[i][n].arg)
            /\ Done(i) =>
                  LET r == ConfigView(i).module.rules
                  IN  /\ r[1].test = "/\\.css$/" /\ Ok(r[1].use, Undefined)
                      /\ Len(r[1].use) = 2
                      /\ r[2].test = "/\\.less$/" /\ Ok(r[2].use, "less-loader")
                      /\ Len(r[2].use) = 3
                      /\ r[3].test = "/\\.s[ac]ss$/" /\ Ok(r[3].use, "sass-loader")
                      /\ Len(r[3].use) = 3

\* The three style rules are exported and cssLoaders has since been called
\* again, without a pre-processor after the call with 'less-loader'.
StyleChainsCalled ==
    \E i \in Inst :
        /\ Done(i)
        /\ Len(ConfigView(i).module.rules[3].use) = 3
        /\ Cardinality(CallsOf(i, "cssLoaders")) > 3
        /\ \E m, n \in CallsOf(i, "cssLoaders") :
              /\ n > m
              /\ calls[i][m].arg = "less-loader"
              /\ calls[i][n].arg = Undefined

\* C9: the helpers are pure: a call with the same argument returns a value
\* equal to the one returned the first time, whatever was called in between,
\* and no call changes a list returned by an earlier call (every object
\* returned so far still has the value it had when it was returned).
HelpersArePure ==
    \A i \in Inst :
        /\ \A m, n \in DOMAIN calls[i] :
              (calls[i][m].fn = calls[i][n].fn /\ calls[i][m].arg = calls[i][n].arg)
                  => calls[i][m].val = calls[i][n].val
        /\ \A n \in DOMAIN calls[i] :
              View(calls[i][n].fn, heap[i], calls[i][n].ret) = calls[i][n].val

\* babelOptions() was called, then babelOptions with the TypeScript preset,
\* then babelOptions() again, and the list the first call returned still has
\* its one element.
PureCallsRepeated ==
    \E i \in Inst :
        \E k, m, n \in CallsOf(i, "babelOptions") :
            /\ k < m /\ m < n
            /\ calls[i][k].arg = Undefined /\ calls[i][n].arg = Undefined
            /\ calls[i][m].arg = "@babel/preset-typescript"
            /\ calls[i][k].ret.presets # calls[i][n].ret.presets
            /\ Len(View("babelOptions", heap[i], calls[i][k].ret).presets) = 1

\* C10: the exported mode does not follow the environment switch: it is
\* 'development' for every value of NODE_ENV, those included for which
\* isProd is true and the minimizers and the bundle-size visualizer are added.
ModeAlwaysDevelopment ==
    \A i \in Inst : Done(i) => exports[i].mode = "development"

\* A configuration with mode 'development' is exported under NODE_ENV =
\* 'production', with the minimizer list and the bundle-size visualizer.
ModeDevelopmentInProduction ==
    \E i \in Inst :
        /\ Done(i) /\ NODE_ENV[i] = "production" /\ isProd[i]
        /\ exports[i].mode = "development"
        /\ Len(ConfigView(i).optimization.minimizer) = 2
        /\ ConfigView(i).plugins[5].class = "BundleAnalyzerPlugin"

====
